---------------------------- MODULE Spec2Model ----------------------------
(***************************************************************************)
(* gosqldb: the table engine of src/db.go (Database: CreateTable, Select,  *)
(* Insert, Update, Delete, NewDatabase) with its catalog file and its      *)
(* per-table row files, and the request handlers of src/api.go that call   *)
(* it, one goroutine per request.                                          *)
(*                                                                         *)
(* Names (table names, column names, string literals) are sequences of     *)
(* one-character strings, so that strings.ToLower, len() and the name      *)
(* regular expression are computed.  Keywords (column types, operand       *)
(* kinds, operations) are strings.                                         *)
(***************************************************************************)
EXTENDS Integers, Sequences, FiniteSets, TLC

(***************************************************************************)
(* Bounds of the model.                                                    *)
(***************************************************************************)
\* the most rows the tables hold in memory and a row file holds (Insert is
\* not started beyond it)
MaxRows == 2

(***************************************************************************)
(* Go values of type interface{} as json.Decoder yields them: float64,     *)
(* string and nil.  A float64 is n + d/10; d # 0 is a fractional part.     *)
(***************************************************************************)
Num(n) == [t |-> "float64", n |-> n, d |-> 0, s |-> <<>>]
Frac(n, d) == [t |-> "float64", n |-> n, d |-> d, s |-> <<>>]
Str(s) == [t |-> "string", n |-> 0, d |-> 0, s |-> s]
Nil == [t |-> "nil", n |-> 0, d |-> 0, s |-> <<>>]

(***************************************************************************)
(* strings.ToLower, over the letters the model uses.                       *)
(***************************************************************************)
ToLowerChar(c) ==
    CASE c = "A" -> "a" [] c = "B" -> "b" [] c = "T" -> "t" [] c = "U" -> "u"
      [] c = "X" -> "x" [] OTHER -> c

ToLower(s) == [i \in DOMAIN s |-> ToLowerChar(s[i])]

\* strings.ToLower on a keyword
ToLowerWord(w) ==
    CASE w = "INTEGER" -> "integer" [] w = "Integer" -> "integer"
      [] w = "STRING" -> "string" [] w = "String" -> "string"
      [] w = "VALUE" -> "value" [] w = "Value" -> "value"
      [] w = "IDENTIFIER" -> "identifier" [] w = "Identifier" -> "identifier"
      [] OTHER -> w

\* var columnTypes
columnTypes == {"integer", "string"}

\* the character class of entityNameRegExp, ^[a-zA-Z0-9_]+$
NameChars == {"a", "b", "t", "u", "x", "A", "B", "T", "U", "X", "0", "1", "_"}

entityNameRegExpMatch(s) == Len(s) > 0 /\ \A i \in DOMAIN s : s[i] \in NameChars

isValidTableNameFormat(s) == entityNameRegExpMatch(s)

isValidColumnNameFormat(s) == entityNameRegExpMatch(s)

(***************************************************************************)
(* Go maps are functions on their key set.                                 *)
(***************************************************************************)
EmptyMap == [k \in {} |-> 0]

MapPut(m, k, v) == [x \in (DOMAIN m) \cup {k} |-> IF x = k THEN v ELSE m[x]]

\* the zero ColumnDef, which a map read of a missing key yields
ZeroColumnDef == [Name |-> <<>>, Type |-> "", Position |-> 0]

ColumnOf(schema, column) ==
    IF column \in DOMAIN schema.Columns THEN schema.Columns[column] ELSE ZeroColumnDef

\* ColumnDef.ReflectType; "nil" is the nil reflect.Type
ReflectType(def) ==
    CASE def.Type = "integer" -> "int"
      [] def.Type = "string" -> "string"
      [] OTHER -> "nil"

\* valueType: a float64 without a fractional part has the type of 0
valueType(value) ==
    IF value.t = "float64" /\ value.d = 0 THEN "int" ELSE value.t

(***************************************************************************)
(* encoding/json.  A JSON text is modelled by its tokens: a number, a      *)
(* string or null; a row file is an array of arrays of them, the catalog   *)
(* an object of objects.                                                   *)
(***************************************************************************)
EncodeValue(v) ==
    CASE v.t = "float64" -> [j |-> "number", int |-> v.n, frac |-> v.d, chars |-> <<>>]
      [] v.t = "string" -> [j |-> "string", int |-> 0, frac |-> 0, chars |-> v.s]
      [] OTHER -> [j |-> "null", int |-> 0, frac |-> 0, chars |-> <<>>]

\* json.Unmarshal into interface{}: every number is a float64
DecodeValue(tok) ==
    CASE tok.j = "number" -> [t |-> "float64", n |-> tok.int, d |-> tok.frac, s |-> <<>>]
      [] tok.j = "string" -> [t |-> "string", n |-> 0, d |-> 0, s |-> tok.chars]
      [] OTHER -> Nil

EncodeRows(rows) ==
    [i \in DOMAIN rows |-> [p \in DOMAIN rows[i] |-> EncodeValue(rows[i][p])]]

DecodeRows(doc) ==
    [i \in DOMAIN doc |-> [p \in DOMAIN doc[i] |-> DecodeValue(doc[i][p])]]

\* a ColumnDef decoded without its position
DecodeColumnDefNoPosition(o) == [Name |-> o.name, Type |-> o.type, Position |-> 0]

\* the json tags of Schema and ColumnDef
EncodeColumnDef(def) == [name |-> def.Name, type |-> def.Type, position |-> def.Position]

DecodeColumnDef(o) == [Name |-> o.name, Type |-> o.type, Position |-> o.position]

EncodeSchema(schema) ==
    [name |-> schema.Name,
     columns |-> {[key |-> c, val |-> EncodeColumnDef(schema.Columns[c])] :
                      c \in DOMAIN schema.Columns}]

DecodeSchema(o) ==
    [Name |-> o.name,
     Columns |-> [c \in {m.key : m \in o.columns} |->
                     DecodeColumnDef((CHOOSE m \in o.columns : m.key = c).val)]]

EncodeTables(tbls) ==
    {[key |-> t, val |-> EncodeSchema(tbls[t])] : t \in DOMAIN tbls}

DecodeTables(doc) ==
    [t \in {m.key : m \in doc} |-> DecodeSchema((CHOOSE m \in doc : m.key = t).val)]

(***************************************************************************)
(* A file: absent, holding a complete JSON text, or holding zero bytes     *)
(* (just created) or a prefix of a text (a write that stopped).            *)
(***************************************************************************)
AbsentFile == [st |-> "absent", doc |-> <<>>]
TruncatedFile == [st |-> "empty", doc |-> <<>>]
PartialFile == [st |-> "partial", doc |-> <<>>]
JsonFile(doc) == [st |-> "json", doc |-> doc]

\* the same for the catalog file, whose text is an object
TruncatedMeta == [st |-> "empty", doc |-> {}]
PartialMeta == [st |-> "partial", doc |-> {}]
JsonMeta(doc) == [st |-> "json", doc |-> doc]

\* tableFilePath: one row file per table name; a file never created is absent
FileOf(fs, tableName) == IF tableName \in DOMAIN fs THEN fs[tableName] ELSE AbsentFile

\* the value of a map read, nil (the empty sequence) for a missing key
DataOf(d, tableName) == IF tableName \in DOMAIN d THEN d[tableName] ELSE <<>>

NoErr == "nil"

(***************************************************************************)
(* WHERE: validation and evaluation.                                       *)
(***************************************************************************)
validateOperand(schema, operand) ==
    LET operandType == ToLowerWord(operand.Type) IN
    CASE operandType = "value" -> [err |-> NoErr, type |-> valueType(operand.Value)]
      [] operandType = "identifier" ->
            IF operand.Value.t # "string"
            THEN [err |-> "IdentifierNotString", type |-> "nil"]
            ELSE LET column == ToLower(operand.Value.s) IN
                 IF column \notin DOMAIN schema.Columns
                 THEN [err |-> "UnknownColumn", type |-> "nil"]
                 ELSE [err |-> NoErr, type |-> ReflectType(schema.Columns[column])]
      [] OTHER -> [err |-> "UnsupportedOperand", type |-> "nil"]

validateOperation(op) == IF op = "eq" THEN NoErr ELSE "UnsupportedOperation"

\* the body of the loop without the comparison of the operand types
validateWhereOneNoTypes(schema, expr) ==
    LET l == validateOperand(schema, expr.Left)
        r == validateOperand(schema, expr.Right) IN
    CASE l.err # NoErr -> l.err
      [] r.err # NoErr -> r.err
      [] OTHER -> validateOperation(expr.Operation)

\* the body of validateWhereExpr's loop
validateWhereOne(schema, expr) ==
    LET l == validateOperand(schema, expr.Left)
        r == validateOperand(schema, expr.Right) IN
    CASE l.err # NoErr -> l.err
      [] r.err # NoErr -> r.err
      [] r.type # l.type -> "TypeMismatch"
      [] OTHER -> validateOperation(expr.Operation)

\* the first error in the order of the list
validateWhereExpr(schema, whereExprs) ==
    LET bad == {i \in DOMAIN whereExprs : validateWhereOne(schema, whereExprs[i]) # NoErr} IN
    IF bad = {} THEN NoErr
    ELSE validateWhereOne(schema, whereExprs[CHOOSE i \in bad : \A k \in bad : i <= k])

\* extractVal; a failed type assertion or an index out of range panics
extractVal(schema, row, operand) ==
    IF operand.Type = "value" THEN [panic |-> FALSE, val |-> operand.Value]
    ELSE IF operand.Value.t # "string" THEN [panic |-> TRUE, val |-> Nil]
    ELSE LET p == ColumnOf(schema, operand.Value.s).Position IN
         IF p + 1 > Len(row) THEN [panic |-> TRUE, val |-> Nil]
         ELSE [panic |-> FALSE, val |-> row[p + 1]]

\* exprMatch: "true", "false" or "panic"
exprMatch(schema, row, expr) ==
    LET left == extractVal(schema, row, expr.Left) IN
    IF left.panic THEN "panic"
    ELSE LET right == extractVal(schema, row, expr.Right) IN
         IF right.panic THEN "panic"
         ELSE IF right.val = left.val THEN "true" ELSE "false"

\* matches: the loop stops at the first expression that does not hold
matches(schema, row, exprs) ==
    LET stop == {i \in DOMAIN exprs : exprMatch(schema, row, exprs[i]) # "true"} IN
    IF stop = {} THEN "true"
    ELSE exprMatch(schema, row, exprs[CHOOSE i \in stop : \A k \in stop : i <= k])

(***************************************************************************)
(* SET: validation and application.                                        *)
(***************************************************************************)
validateSetExpr(schema, column, value) ==
    IF column \notin DOMAIN schema.Columns THEN "UnknownColumn"
    ELSE IF ReflectType(schema.Columns[column]) # valueType(value) THEN "TypeMismatch"
    ELSE NoErr

\* the body of the loop without the updateCol map
validateExprOneNoDuplicates(schema, exprs, i) ==
    validateSetExpr(schema, ToLower(exprs[i].Column), exprs[i].Value)

\* the body of validateExpr's loop at index i
validateExprOne(schema, exprs, i) ==
    LET col == ToLower(exprs[i].Column) IN
    IF \E k \in 1..(i - 1) : ToLower(exprs[k].Column) = col THEN "DuplicateColumn"
    ELSE validateSetExpr(schema, col, exprs[i].Value)

validateExpr(schema, exprs) ==
    LET bad == {i \in DOMAIN exprs : validateExprOne(schema, exprs, i) # NoErr} IN
    IF bad = {} THEN NoErr
    ELSE validateExprOne(schema, exprs, CHOOSE i \in bad : \A k \in bad : i <= k)

\* updateValues: the column is looked up as written in the query
RECURSIVE updateValuesFrom(_, _, _, _)
updateValuesFrom(schema, exprs, newRow, i) ==
    IF i > Len(exprs) THEN newRow
    ELSE updateValuesFrom(schema, exprs,
             [newRow EXCEPT ![ColumnOf(schema, exprs[i].Column).Position + 1] = exprs[i].Value],
             i + 1)

updateValues(schema, exprs, row) == updateValuesFrom(schema, exprs, row, 1)

(***************************************************************************)
(* Insert: the checks of the query and the re-projection of its rows.      *)
(***************************************************************************)
\* insertColumns: lower-cased column name -> its last index in the query
insertColumnsOf(columns) ==
    [c \in {ToLower(columns[i]) : i \in DOMAIN columns} |->
        (CHOOSE i \in DOMAIN columns :
            /\ ToLower(columns[i]) = c
            /\ \A k \in DOMAIN columns : ToLower(columns[k]) = c => k <= i) - 1]

validateInsert(table, query) ==
    CASE Len(query.Values) = 0 -> "EmptyValues"
      [] \E i \in DOMAIN query.Columns : ToLower(query.Columns[i]) \notin DOMAIN table.Columns
            -> "UnknownColumn"
      [] \E c \in DOMAIN table.Columns :
            table.Columns[c].Name \notin DOMAIN insertColumnsOf(query.Columns)
            -> "MissingColumn"
      [] \E r \in DOMAIN query.Values : Len(query.Values[r]) # Len(query.Columns)
            -> "RowArityMismatch"
      [] OTHER -> NoErr

\* the rows of the query in the order their values were supplied
sortValuesAsSupplied(table, insertColumns, values) == values

\* sortValues: a new row as long as the input row, nil where nothing is put
sortValues(table, insertColumns, values) ==
    [r \in DOMAIN values |->
        [p \in 1..Len(values[r]) |->
            LET at == {c \in DOMAIN insertColumns : ColumnOf(table, c).Position = p - 1} IN
            IF at = {} THEN Nil
            ELSE values[r][insertColumns[CHOOSE c \in at : TRUE] + 1]]]


(***************************************************************************)
(* The queries the request handlers receive (decodeQuery).                 *)
(***************************************************************************)
ColA == [Name |-> <<"a">>, Type |-> "integer"]
ColB == [Name |-> <<"b">>, Type |-> "String"]
ColUpperA == [Name |-> <<"A">>, Type |-> "string"]
ColBadType == [Name |-> <<"b">>, Type |-> "float"]
ColBadName == [Name |-> <<"a", "-">>, Type |-> "integer"]

CreateTableQueries ==
    {[kind |-> "create_table", TableName |-> n, Columns |-> <<ColA, ColB>>] :
        n \in {<<"t">>, <<"T">>}}
    \cup {[kind |-> "create_table", TableName |-> <<"u">>, Columns |-> <<ColA>>],
          [kind |-> "create_table", TableName |-> <<"U">>, Columns |-> <<ColA>>],
          [kind |-> "create_table", TableName |-> <<"u">>, Columns |-> <<>>],
          [kind |-> "create_table", TableName |-> <<>>, Columns |-> <<ColA>>],
          [kind |-> "create_table", TableName |-> <<"u">>, Columns |-> <<ColA, ColUpperA>>],
          [kind |-> "create_table", TableName |-> <<"u">>, Columns |-> <<ColA, ColBadType>>],
          [kind |-> "create_table", TableName |-> <<"u">>, Columns |-> <<ColBadName>>]}

\* into t (a integer, b string) and u (a integer)
InsertQueries ==
    {[kind |-> "insert", TableName |-> <<"t">>, Columns |-> <<<<"a">>, <<"b">>>>,
      Values |-> <<<<Num(1), Str(<<"x">>)>>>>],
     [kind |-> "insert", TableName |-> <<"T">>, Columns |-> <<<<"B">>, <<"a">>>>,
      Values |-> <<<<Str(<<"x">>), Num(1)>>>>],
     [kind |-> "insert", TableName |-> <<"t">>, Columns |-> <<<<"a">>, <<"b">>>>,
      Values |-> <<<<Num(1), Str(<<"x">>)>>, <<Num(2), Str(<<"x">>)>>>>],
     [kind |-> "insert", TableName |-> <<"t">>, Columns |-> <<<<"a">>>>,
      Values |-> <<<<Num(1)>>>>],
     [kind |-> "insert", TableName |-> <<"t">>, Columns |-> <<<<"a">>, <<"b">>>>,
      Values |-> <<<<Num(1)>>>>],
     [kind |-> "insert", TableName |-> <<"t">>, Columns |-> <<<<"a">>, <<"x">>>>,
      Values |-> <<<<Num(1), Num(1)>>>>],
     [kind |-> "insert", TableName |-> <<"t">>, Columns |-> <<<<"a">>, <<"b">>>>,
      Values |-> <<>>],
     [kind |-> "insert", TableName |-> <<"x">>, Columns |-> <<<<"a">>>>,
      Values |-> <<<<Num(1)>>>>],
     [kind |-> "insert", TableName |-> <<"u">>, Columns |-> <<<<"a">>>>,
      Values |-> <<<<Num(1)>>>>],
     [kind |-> "insert", TableName |-> <<"u">>, Columns |-> <<<<"a">>>>,
      Values |-> <<<<Str(<<"x">>)>>>>],
     [kind |-> "insert", TableName |-> <<"u">>, Columns |-> <<<<"a">>, <<"A">>>>,
      Values |-> <<<<Num(1), Num(2)>>>>]}

Ident(c) == [Type |-> "identifier", Value |-> Str(c)]
Lit(v) == [Type |-> "value", Value |-> v]
Eq(l, r) == [Left |-> l, Operation |-> "eq", Right |-> r]

WhereAll == <<>>
WhereA1 == <<Eq(Ident(<<"a">>), Lit(Num(1)))>>
WhereMismatch == <<Eq(Ident(<<"a">>), Lit(Str(<<"x">>)))>>
WhereUpperB == <<Eq(Ident(<<"B">>), Lit(Str(<<"x">>)))>>
WhereUpperValue == <<Eq(Ident(<<"a">>), [Type |-> "VALUE", Value |-> Num(1)])>>
WhereBadOperationThenMismatch ==
    <<[Left |-> Ident(<<"a">>), Operation |-> "lt", Right |-> Lit(Num(1))],
      Eq(Ident(<<"a">>), Lit(Str(<<"x">>)))>>

SetB == [Column |-> <<"b">>, Value |-> Str(<<"y">>)]
SetUpperB == [Column |-> <<"B">>, Value |-> Str(<<"y">>)]

SelectQueries ==
    {[kind |-> "select", From |-> <<"t">>, Where |-> WhereAll],
     [kind |-> "select", From |-> <<"T">>, Where |-> WhereA1],
     [kind |-> "select", From |-> <<"t">>, Where |-> WhereMismatch],
     [kind |-> "select", From |-> <<"t">>, Where |-> WhereUpperB],
     [kind |-> "select", From |-> <<"t">>, Where |-> WhereUpperValue],
     [kind |-> "select", From |-> <<"t">>, Where |-> WhereBadOperationThenMismatch],
     [kind |-> "select", From |-> <<"x">>, Where |-> WhereAll]}

UpdateQueries ==
    {[kind |-> "update", TableName |-> <<"t">>, Where |-> WhereA1, Set |-> <<SetB>>],
     [kind |-> "update", TableName |-> <<"T">>, Where |-> WhereA1, Set |-> <<SetUpperB>>],
     [kind |-> "update", TableName |-> <<"t">>, Where |-> WhereMismatch, Set |-> <<SetB>>],
     [kind |-> "update", TableName |-> <<"t">>, Where |-> WhereAll,
      Set |-> <<[Column |-> <<"a">>, Value |-> Str(<<"y">>)]>>],
     [kind |-> "update", TableName |-> <<"t">>, Where |-> WhereAll, Set |-> <<SetB, SetUpperB>>],
     [kind |-> "update", TableName |-> <<"t">>, Where |-> WhereAll,
      Set |-> <<[Column |-> <<"x">>, Value |-> Str(<<"y">>)]>>],
     [kind |-> "update", TableName |-> <<"x">>, Where |-> WhereAll, Set |-> <<SetB>>]}

DeleteQueries ==
    {[kind |-> "delete", TableName |-> <<"t">>, Where |-> WhereA1],
     [kind |-> "delete", TableName |-> <<"T">>, Where |-> WhereAll],
     [kind |-> "delete", TableName |-> <<"t">>, Where |-> WhereMismatch],
     [kind |-> "delete", TableName |-> <<"x">>, Where |-> WhereAll]}

\* the goroutines serving requests (net/http starts one per request)
Handlers == {"h1", "h2"}

(***************************************************************************)
(* State.                                                                  *)
(***************************************************************************)
VARIABLES
    tables,     \* Database.tables: lower-case table name -> Schema
    data,       \* Database.data: table name -> rows
    metaFile,   \* the catalog file gosqldb.meta.json
    files,      \* the row files <table>.table.json, by table name
    pc,         \* where each handler is in its call
    query,      \* the query each handler executes
    loc,        \* the local variables of each handler's call
    ret,        \* what each handler's last call returned
    pre,        \* the engine and its files when each handler's call began
    lockFile,   \* gosqldb.lock: "none", or the process that created it
    proc        \* where each process is in main

vars == <<tables, data, metaFile, files, pc, query, loc, ret, pre, lockFile, proc>>

\* the processes started on the directory; tables and data are the memory
\* of p1, whose requests the handlers serve
Processes == {"p1", "p2"}

\* p1 has created the lock file, loaded the directory and is listening
Serving == lockFile = "p1" /\ proc = [p \in Processes |-> IF p = "p1" THEN "serving" ELSE "off"]

NoQuery == [kind |-> "none"]
NoLoc == [tableName |-> <<>>, table |-> ZeroColumnDef, newRows |-> <<>>,
          updateRows |-> <<>>, deleteRows |-> {}, applied |-> {},
          rows |-> <<>>, cur |-> <<>>]
NoRet == [err |-> "none", n |-> 0, rows |-> <<>>, at |-> "none"]

Snapshot == [tables |-> tables, data |-> data, metaFile |-> metaFile, files |-> files]

\* before any call
NoSnapshot == [tables |-> EmptyMap, data |-> EmptyMap,
               metaFile |-> JsonMeta(EncodeTables(EmptyMap)), files |-> EmptyMap]

\* a return: err is NoErr or the error, at the step that failed; the locals
\* of the call are gone
Return(h, err, n, rows, at) ==
    /\ pc' = [pc EXCEPT ![h] = "idle"]
    /\ ret' = [ret EXCEPT ![h] = [err |-> err, n |-> n, rows |-> rows, at |-> at]]
    /\ loc' = [loc EXCEPT ![h] = NoLoc]
    /\ UNCHANGED <<lockFile, proc>>

\* the call goes on at the step at, with the locals l
Goto(h, at, l) ==
    /\ pc' = [pc EXCEPT ![h] = at]
    /\ loc' = [loc EXCEPT ![h] = l]
    /\ ret' = [ret EXCEPT ![h] = NoRet]
    /\ UNCHANGED <<lockFile, proc>>

TotalRows == LET RECURSIVE Sum(_)
                 Sum(S) == IF S = {} THEN 0
                           ELSE LET t == CHOOSE x \in S : TRUE IN Len(data[t]) + Sum(S \ {t})
             IN Sum(DOMAIN data)

\* NewDatabase on an empty directory: initializeMetaFile stores the empty map
Init ==
    /\ tables = EmptyMap
    /\ data = EmptyMap
    /\ metaFile = JsonMeta(EncodeTables(EmptyMap))
    /\ files = EmptyMap
    /\ pc = [h \in Handlers |-> "idle"]
    /\ query = [h \in Handlers |-> NoQuery]
    /\ loc = [h \in Handlers |-> NoLoc]
    /\ ret = [h \in Handlers |-> NoRet]
    /\ pre = [h \in Handlers |-> NoSnapshot]
    /\ Serving

\* a handler takes a request
Start(h, q) ==
    /\ pc[h] = "idle"
    /\ query' = [query EXCEPT ![h] = q]
    /\ pre' = [pre EXCEPT ![h] = Snapshot]

(***************************************************************************)
(* CreateTable.                                                            *)
(***************************************************************************)
\* the loop over query.Columns at index i: its error, if any
createColumnError(tableName, columns, i) ==
    LET columnName == ToLower(columns[i].Name) IN
    CASE Len(columnName) = 0 -> "InvalidName"
      [] ~isValidColumnNameFormat(tableName) -> "InvalidName"
      [] \E k \in 1..(i - 1) : ToLower(columns[k].Name) = columnName -> "DuplicateColumn"
      [] ToLowerWord(columns[i].Type) \notin columnTypes -> "UnknownType"
      [] OTHER -> NoErr

\* the checks of CreateTable with the test of db.tables after those of the columns
validateCreateTableColumnsFirst(tbls, q) ==
    LET tableName == ToLower(q.TableName)
        bad == {i \in DOMAIN q.Columns : createColumnError(tableName, q.Columns, i) # NoErr} IN
    CASE Len(tableName) = 0 -> "InvalidName"
      [] ~isValidTableNameFormat(tableName) -> "InvalidName"
      [] Len(q.Columns) = 0 -> "EmptyColumnList"
      [] bad # {} -> createColumnError(tableName, q.Columns, CHOOSE i \in bad : \A k \in bad : i <= k)
      [] tableName \in DOMAIN tbls -> "TableExists"
      [] OTHER -> NoErr

\* the checks of CreateTable in their order
validateCreateTable(tbls, q) ==
    LET tableName == ToLower(q.TableName)
        bad == {i \in DOMAIN q.Columns : createColumnError(tableName, q.Columns, i) # NoErr} IN
    CASE Len(tableName) = 0 -> "InvalidName"
      [] ~isValidTableNameFormat(tableName) -> "InvalidName"
      [] tableName \in DOMAIN tbls -> "TableExists"
      [] Len(q.Columns) = 0 -> "EmptyColumnList"
      [] bad # {} -> createColumnError(tableName, q.Columns, CHOOSE i \in bad : \A k \in bad : i <= k)
      [] OTHER -> NoErr

\* the Schema with every ColumnDef left at Position 0
newSchemaPositionZero(q) ==
    [Name |-> ToLower(q.TableName),
     Columns |-> [c \in {ToLower(q.Columns[i].Name) : i \in DOMAIN q.Columns} |->
                    LET i == CHOOSE i \in DOMAIN q.Columns : ToLower(q.Columns[i].Name) = c IN
                    [Name |-> c, Type |-> ToLowerWord(q.Columns[i].Type), Position |-> 0]]]

\* tableColumns and the Schema built from them; Position is the index in the query
newSchema(q) ==
    [Name |-> ToLower(q.TableName),
     Columns |-> [c \in {ToLower(q.Columns[i].Name) : i \in DOMAIN q.Columns} |->
                    LET i == CHOOSE i \in DOMAIN q.Columns : ToLower(q.Columns[i].Name) = c IN
                    [Name |-> c, Type |-> ToLowerWord(q.Columns[i].Type), Position |-> i - 1]]]

\* CreateTable writing db.tables before it checks the columns
CreateTableCallPutFirst(h, q) ==
    /\ Start(h, q)
    /\ LET err == validateCreateTable(tables, q) IN
       IF err \in {"InvalidName", "TableExists"}
       THEN /\ Return(h, err, 0, <<>>, "validate")
            /\ UNCHANGED tables
       ELSE IF err # NoErr
       THEN /\ tables' = MapPut(tables, ToLower(q.TableName), newSchema(q))
            /\ Return(h, err, 0, <<>>, "validate")
       ELSE /\ Goto(h, "ct_put", [NoLoc EXCEPT !.tableName = ToLower(q.TableName),
                                               !.table = newSchema(q)])
            /\ UNCHANGED tables
    /\ UNCHANGED <<data, metaFile, files>>

\* CreateTable up to its write of db.tables
CreateTableCall(h, q) ==
    /\ Start(h, q)
    /\ LET err == validateCreateTable(tables, q) IN
       IF err # NoErr
       THEN Return(h, err, 0, <<>>, "validate")
       ELSE Goto(h, "ct_put", [NoLoc EXCEPT !.tableName = ToLower(q.TableName),
                                            !.table = newSchema(q)])
    /\ UNCHANGED <<tables, data, metaFile, files>>

\* db.tables[tableName] = table
CtPut(h) ==
    /\ pc[h] = "ct_put"
    /\ tables' = MapPut(tables, loc[h].tableName, loc[h].table)
    /\ Goto(h, "ss_create", loc[h])
    /\ UNCHANGED <<data, metaFile, files, query, pre>>

\* storeSchema: os.Create truncates the catalog file
SsCreate(h) ==
    /\ pc[h] = "ss_create"
    /\ metaFile' = TruncatedMeta
    /\ Goto(h, "ss_encode", loc[h])
    /\ UNCHANGED <<tables, data, files, query, pre>>

\* storeSchema: os.Create fails
SsCreateFail(h) ==
    /\ pc[h] = "ss_create"
    /\ Return(h, "StorageIO", 0, <<>>, "create")
    /\ UNCHANGED <<tables, data, metaFile, files, query, pre>>

\* storeSchema: the encoder writes db.tables as it is now
SsEncode(h) ==
    /\ pc[h] = "ss_encode"
    /\ metaFile' = JsonMeta(EncodeTables(tables))
    /\ Return(h, NoErr, 0, <<>>, "none")
    /\ UNCHANGED <<tables, data, files, query, pre>>

\* storeSchema: the encoder has written the catalog and the deferred Close
\* fails: checkFileClose panics, and the panic ends the call
SsCloseFail(h) ==
    /\ pc[h] = "ss_encode"
    /\ metaFile' = JsonMeta(EncodeTables(tables))
    /\ Return(h, "panic", 0, <<>>, "close")
    /\ UNCHANGED <<tables, data, files, query, pre>>

\* storeSchema: the write stops early
SsEncodeFail(h) ==
    /\ pc[h] = "ss_encode"
    /\ metaFile' \in {TruncatedMeta, PartialMeta}
    /\ Return(h, "StorageIO", 0, <<>>, "encode")
    /\ UNCHANGED <<tables, data, files, query, pre>>

(***************************************************************************)
(* Select, and the scans of Update and Delete.  Row indices are those of   *)
(* the sequence, from 1.                                                   *)
(***************************************************************************)
\* whether evaluating WHERE on some row of the scan panics
scanPanics(schema, tableData, where) ==
    \E i \in DOMAIN tableData : matches(schema, tableData[i], where) = "panic"

\* the indices of the rows that match
matchedIndices(schema, tableData, where) ==
    {i \in DOMAIN tableData : matches(schema, tableData[i], where) = "true"}

\* the rows at the indices of S, in their order
RECURSIVE rowsAt(_, _, _)
rowsAt(tableData, S, i) ==
    IF i > Len(tableData) THEN <<>>
    ELSE (IF i \in S THEN <<tableData[i]>> ELSE <<>>) \o rowsAt(tableData, S, i + 1)

Select(h, q) ==
    /\ Start(h, q)
    /\ LET tableName == ToLower(q.From) IN
       IF tableName \notin DOMAIN tables
       THEN Return(h, "UnknownTable", 0, <<>>, "validate")
       ELSE LET schema == tables[tableName]
                err == validateWhereExpr(schema, q.Where)
                tableData == DataOf(data, tableName) IN
            IF err # NoErr THEN Return(h, err, 0, <<>>, "validate")
            ELSE IF scanPanics(schema, tableData, q.Where)
            THEN Return(h, "panic", 0, <<>>, "scan")
            ELSE Return(h, NoErr, 0,
                        rowsAt(tableData, matchedIndices(schema, tableData, q.Where), 1),
                        "none")
    /\ UNCHANGED <<tables, data, metaFile, files>>

(***************************************************************************)
(* Insert, Update and Delete up to their call of updateFile.               *)
(***************************************************************************)
\* newRows of Insert
insertLocals(table, q) ==
    [NoLoc EXCEPT !.tableName = table.Name,
                  !.newRows = sortValues(table, insertColumnsOf(q.Columns), q.Values)]

\* updateRows of an Update that takes every row, matching or not
updateLocalsEveryRow(schema, tableData, q) ==
    [NoLoc EXCEPT !.tableName = schema.Name,
                  !.updateRows = [i \in DOMAIN tableData |->
                                     updateValues(schema, q.Set, tableData[i])]]

\* updateRows of Update: index -> the row updateValues makes of the row there
updateLocals(schema, tableData, q) ==
    [NoLoc EXCEPT !.tableName = schema.Name,
                  !.updateRows = [i \in matchedIndices(schema, tableData, q.Where) |->
                                     updateValues(schema, q.Set, tableData[i])]]

\* deleteRows of Delete: the indices of the rows that match
deleteLocals(schema, tableData, q) ==
    [NoLoc EXCEPT !.tableName = schema.Name,
                  !.deleteRows = matchedIndices(schema, tableData, q.Where)]

\* Insert looking the table up under the name as the query writes it
InsertCallNameAsWritten(h, q) ==
    /\ Start(h, q)
    /\ IF q.TableName \notin DOMAIN tables
       THEN Return(h, "UnknownTable", 0, <<>>, "validate")
       ELSE LET table == tables[q.TableName]
                err == validateInsert(table, q) IN
            IF err # NoErr
            THEN Return(h, err, 0, <<>>, "validate")
            ELSE /\ TotalRows + Len(q.Values) <= MaxRows
                 /\ Len(FileOf(files, table.Name).doc) + Len(q.Values) <= MaxRows
                 /\ Goto(h, "uf_read", insertLocals(table, q))
    /\ UNCHANGED <<tables, data, metaFile, files>>

InsertCall(h, q) ==
    /\ Start(h, q)
    /\ LET tableName == ToLower(q.TableName) IN
       IF tableName \notin DOMAIN tables
       THEN Return(h, "UnknownTable", 0, <<>>, "validate")
       ELSE LET table == tables[tableName]
                err == validateInsert(table, q) IN
            IF err # NoErr
            THEN Return(h, err, 0, <<>>, "validate")
            ELSE /\ TotalRows + Len(q.Values) <= MaxRows
                 /\ Len(FileOf(files, table.Name).doc) + Len(q.Values) <= MaxRows
                 /\ Goto(h, "uf_read", insertLocals(table, q))
    /\ UNCHANGED <<tables, data, metaFile, files>>

UpdateCall(h, q) ==
    /\ Start(h, q)
    /\ LET tableName == ToLower(q.TableName) IN
       IF tableName \notin DOMAIN tables
       THEN Return(h, "UnknownTable", 0, <<>>, "validate")
       ELSE LET schema == tables[tableName]
                werr == validateWhereExpr(schema, q.Where)
                serr == validateExpr(schema, q.Set)
                tableData == DataOf(data, tableName) IN
            IF werr # NoErr THEN Return(h, werr, 0, <<>>, "validate")
            ELSE IF serr # NoErr THEN Return(h, serr, 0, <<>>, "validate")
            ELSE IF scanPanics(schema, tableData, q.Where)
            THEN Return(h, "panic", 0, <<>>, "scan")
            ELSE Goto(h, "uf_read", updateLocals(schema, tableData, q))
    /\ UNCHANGED <<tables, data, metaFile, files>>

DeleteCall(h, q) ==
    /\ Start(h, q)
    /\ LET tableName == ToLower(q.TableName) IN
       IF tableName \notin DOMAIN tables
       THEN Return(h, "UnknownTable", 0, <<>>, "validate")
       ELSE LET schema == tables[tableName]
                werr == validateWhereExpr(schema, q.Where)
                tableData == DataOf(data, tableName) IN
            IF werr # NoErr THEN Return(h, werr, 0, <<>>, "validate")
            ELSE IF scanPanics(schema, tableData, q.Where)
            THEN Return(h, "panic", 0, <<>>, "scan")
            ELSE Goto(h, "uf_read", deleteLocals(schema, tableData, q))
    /\ UNCHANGED <<tables, data, metaFile, files>>

(***************************************************************************)
(* updateFile, step by step.                                               *)
(***************************************************************************)
\* the callback of writeToFileNewRows, updateRowsInFile or deleteRowsInFile
\* applied to the rows read from the file; an index beyond them panics
callbackPanics(kind, l) ==
    kind = "update" /\ \E i \in DOMAIN l.updateRows : i > Len(l.rows)

\* the callbacks, with writeToFileNewRows leaving out the rows read
callbackWithoutRowsRead(kind, l) ==
    CASE kind = "insert" -> l.newRows
      [] kind = "update" ->
            [i \in DOMAIN l.rows |-> IF i \in DOMAIN l.updateRows THEN l.updateRows[i]
                                     ELSE l.rows[i]]
      [] OTHER -> rowsAt(l.rows, (DOMAIN l.rows) \ l.deleteRows, 1)

callback(kind, l) ==
    CASE kind = "insert" -> l.rows \o l.newRows
      [] kind = "update" ->
            [i \in DOMAIN l.rows |-> IF i \in DOMAIN l.updateRows THEN l.updateRows[i]
                                     ELSE l.rows[i]]
      [] OTHER -> rowsAt(l.rows, (DOMAIN l.rows) \ l.deleteRows, 1)

\* ioutil.ReadFile and json.Unmarshal: a missing file reads as no rows, and
\* a file without a complete JSON text fails to decode
UfRead(h) ==
    /\ pc[h] = "uf_read"
    /\ LET f == FileOf(files, loc[h].tableName) IN
       IF f.st \in {"empty", "partial"}
       THEN Return(h, "StorageIO", 0, <<>>, "decode")
       ELSE Goto(h, "uf_create",
                 [loc[h] EXCEPT !.rows = IF f.st = "absent" THEN <<>> ELSE DecodeRows(f.doc)])
    /\ UNCHANGED <<tables, data, metaFile, files, query, pre>>

\* ioutil.ReadFile fails with an error other than "not exist"
UfReadFail(h) ==
    /\ pc[h] = "uf_read"
    /\ Return(h, "StorageIO", 0, <<>>, "read")
    /\ UNCHANGED <<tables, data, metaFile, files, query, pre>>

\* os.Create truncates the row file
\* os.Create truncating every row file of the directory
UfCreateEveryFile(h) ==
    /\ pc[h] = "uf_create"
    /\ files' = [x \in (DOMAIN files) \cup {loc[h].tableName} |-> TruncatedFile]
    /\ Goto(h, "uf_encode", loc[h])
    /\ UNCHANGED <<tables, data, metaFile, query, pre>>

UfCreate(h) ==
    /\ pc[h] = "uf_create"
    /\ files' = MapPut(files, loc[h].tableName, TruncatedFile)
    /\ Goto(h, "uf_encode", loc[h])
    /\ UNCHANGED <<tables, data, metaFile, query, pre>>

\* os.Create fails in an Insert that has put newRows in db.data already
UfCreateFailAfterPut(h) ==
    /\ pc[h] = "uf_create"
    /\ data' = MapPut(data, loc[h].tableName,
                      DataOf(data, loc[h].tableName) \o loc[h].newRows)
    /\ Return(h, "StorageIO", 0, <<>>, "create")
    /\ UNCHANGED <<tables, metaFile, files, query, pre>>

\* os.Create fails
UfCreateFail(h) ==
    /\ pc[h] = "uf_create"
    /\ Return(h, "StorageIO", 0, <<>>, "create")
    /\ UNCHANGED <<tables, data, metaFile, files, query, pre>>

\* where Insert, Update and Delete go on after updateFile returned nil
memStep(kind) ==
    CASE kind = "insert" -> "mem_insert"
      [] kind = "update" -> "mem_update"
      [] OTHER -> "mem_delete"

\* the callback computes the new rows and the encoder writes them; an Update
\* of no row has nothing to put in memory and returns here
UfEncode(h) ==
    /\ pc[h] = "uf_encode"
    /\ LET kind == query[h].kind
           l == loc[h] IN
       IF callbackPanics(kind, l)
       THEN /\ Return(h, "panic", 0, <<>>, "callback")
            /\ UNCHANGED files
       ELSE /\ files' = MapPut(files, l.tableName, JsonFile(EncodeRows(callback(kind, l))))
            /\ IF kind = "update" /\ DOMAIN l.updateRows = {}
               THEN Return(h, NoErr, 0, <<>>, "none")
               ELSE Goto(h, memStep(kind), l)
    /\ UNCHANGED <<tables, data, metaFile, query, pre>>

\* the deferred Close fails and its error is dropped: the call goes on
UfCloseFailDropped(h) ==
    /\ pc[h] = "uf_encode"
    /\ ~callbackPanics(query[h].kind, loc[h])
    /\ files' = MapPut(files, loc[h].tableName,
                       JsonFile(EncodeRows(callback(query[h].kind, loc[h]))))
    /\ Return(h, NoErr, 0, <<>>, "close")
    /\ UNCHANGED <<tables, data, metaFile, query, pre>>

\* the encoder has written the rows and the deferred Close of updateFile
\* fails: checkFileClose panics, and the panic ends the call
UfCloseFail(h) ==
    /\ pc[h] = "uf_encode"
    /\ ~callbackPanics(query[h].kind, loc[h])
    /\ files' = MapPut(files, loc[h].tableName,
                       JsonFile(EncodeRows(callback(query[h].kind, loc[h]))))
    /\ Return(h, "panic", 0, <<>>, "close")
    /\ UNCHANGED <<tables, data, metaFile, query, pre>>

\* the encoder's write stops early
UfEncodeFail(h) ==
    /\ pc[h] = "uf_encode"
    /\ files' \in {MapPut(files, loc[h].tableName, f) : f \in {TruncatedFile, PartialFile}}
    /\ Return(h, "StorageIO", 0, <<>>, "encode")
    /\ UNCHANGED <<tables, data, metaFile, query, pre>>

(***************************************************************************)
(* The update of db.data after updateFile returned nil.                    *)
(***************************************************************************)
\* Insert and Delete read db.data[tableName] ...
MemRead(h) ==
    /\ pc[h] \in {"mem_insert", "mem_delete"}
    /\ Goto(h, IF pc[h] = "mem_insert" THEN "put_insert" ELSE "put_delete",
            [loc[h] EXCEPT !.cur = DataOf(data, loc[h].tableName)])
    /\ UNCHANGED <<tables, data, metaFile, files, query, pre>>

\* Insert assigning newRows alone to db.data[tableName]
InsertPutNewRowsOnly(h) ==
    /\ pc[h] = "put_insert"
    /\ data' = MapPut(data, loc[h].tableName, loc[h].newRows)
    /\ Return(h, NoErr, Len(loc[h].newRows), <<>>, "none")
    /\ UNCHANGED <<tables, metaFile, files, query, pre>>

\* ... and assign it: Insert the rows read with newRows appended
InsertPut(h) ==
    /\ pc[h] = "put_insert"
    /\ data' = MapPut(data, loc[h].tableName, loc[h].cur \o loc[h].newRows)
    /\ Return(h, NoErr, Len(loc[h].newRows), <<>>, "none")
    /\ UNCHANGED <<tables, metaFile, files, query, pre>>

\* Delete dropping as many rows as deleteRows has indices from the end
DeletePutFromEnd(h) ==
    /\ pc[h] = "put_delete"
    /\ data' = MapPut(data, loc[h].tableName,
                      SubSeq(loc[h].cur, 1, Len(loc[h].cur) - Cardinality(loc[h].deleteRows)))
    /\ Return(h, NoErr, Cardinality(loc[h].deleteRows), <<>>, "none")
    /\ UNCHANGED <<tables, metaFile, files, query, pre>>

\* Delete the rows read without those at the indices of deleteRows
DeletePut(h) ==
    /\ pc[h] = "put_delete"
    /\ data' = MapPut(data, loc[h].tableName,
                      rowsAt(loc[h].cur, (DOMAIN loc[h].cur) \ loc[h].deleteRows, 1))
    /\ Return(h, NoErr, Cardinality(loc[h].deleteRows), <<>>, "none")
    /\ UNCHANGED <<tables, metaFile, files, query, pre>>

\* Update assigns db.data[tableName][index] for one index of updateRows at a
\* time, in the order the map yields them; an index out of range panics
UpdatePut(h) ==
    /\ pc[h] = "mem_update"
    /\ \E i \in (DOMAIN loc[h].updateRows) \ loc[h].applied :
          LET cur == DataOf(data, loc[h].tableName)
              done == loc[h].applied \cup {i} IN
          IF i > Len(cur)
          THEN /\ Return(h, "panic", 0, <<>>, "memory")
               /\ UNCHANGED data
          ELSE /\ data' = MapPut(data, loc[h].tableName,
                                 [cur EXCEPT ![i] = loc[h].updateRows[i]])
               /\ IF done = DOMAIN loc[h].updateRows
                  THEN Return(h, NoErr, Cardinality(DOMAIN loc[h].updateRows), <<>>, "none")
                  ELSE Goto(h, "mem_update", [loc[h] EXCEPT !.applied = done])
    /\ UNCHANGED <<tables, metaFile, files, query, pre>>

(***************************************************************************)
(* NewDatabase: the process is started again on the same directory.        *)
(***************************************************************************)
\* loadSchema
loadSchema(mf) == DecodeTables(mf.doc)

\* loadData: a table without a row file has no rows
loadData(fs, tbls) ==
    [t \in DOMAIN tbls |-> IF FileOf(fs, t).st = "absent" THEN <<>>
                           ELSE DecodeRows(FileOf(fs, t).doc)]

\* whether loadSchema and loadData succeed
Loadable(mf, fs) ==
    /\ mf.st = "json"
    /\ \A t \in DOMAIN loadSchema(mf) : FileOf(fs, t).st \in {"absent", "json"}

NewDatabase ==
    /\ \A h \in Handlers : pc[h] = "idle"
    /\ Loadable(metaFile, files)
    /\ tables' = loadSchema(metaFile)
    /\ data' = loadData(files, loadSchema(metaFile))
    /\ query' = [h \in Handlers |-> [kind |-> "new_database"]]
    /\ loc' = [h \in Handlers |-> NoLoc]
    /\ ret' = [h \in Handlers |-> NoRet]
    /\ pre' = [h \in Handlers |-> NoSnapshot]
    /\ UNCHANGED <<metaFile, files, pc, lockFile, proc>>

(***************************************************************************)
(* Specifications.                                                         *)
(***************************************************************************)
\* the steps of a call that is under way
Step(h) ==
    \/ CtPut(h) \/ SsCreate(h) \/ SsEncode(h)
    \/ UfRead(h) \/ UfCreate(h) \/ UfEncode(h)
    \/ MemRead(h) \/ InsertPut(h) \/ DeletePut(h) \/ UpdatePut(h)

\* a storage operation of a call fails
Fail(h) ==
    \/ SsCreateFail(h) \/ SsEncodeFail(h) \/ SsCloseFail(h)
    \/ UfReadFail(h) \/ UfCreateFail(h) \/ UfEncodeFail(h) \/ UfCloseFail(h)

\* a handler takes any request
Call(h) ==
    \/ \E q \in CreateTableQueries : CreateTableCall(h, q)
    \/ \E q \in SelectQueries : Select(h, q)
    \/ \E q \in InsertQueries : InsertCall(h, q)
    \/ \E q \in UpdateQueries : UpdateCall(h, q)
    \/ \E q \in DeleteQueries : DeleteCall(h, q)

\* one call at a time, no storage failure
Next == Call("h1") \/ Step("h1") \/ NewDatabase

Spec == Init /\ [][Next]_vars

\* the requests of the runs with storage failures and of the concurrent runs
FewCreateTableQueries ==
    {q \in CreateTableQueries : q.TableName \in {<<"t">>, <<"T">>}}

FewInsertQueries ==
    {q \in InsertQueries : /\ q.TableName = <<"t">>
                           /\ q.Columns = <<<<"a">>, <<"b">>>>
                           /\ Len(q.Values) = 1
                           /\ Len(q.Values[1]) = 2}

FewUpdateQueries ==
    {q \in UpdateQueries : q.TableName = <<"t">> /\ q.Where = WhereA1 /\ q.Set = <<SetB>>}

FewDeleteQueries ==
    {q \in DeleteQueries : q.TableName = <<"t">> /\ q.Where = WhereA1}

FewSelectQueries ==
    {q \in SelectQueries : q.From = <<"t">> /\ q.Where = WhereAll}

CallFew(h) ==
    \/ \E q \in FewCreateTableQueries : CreateTableCall(h, q)
    \/ \E q \in FewSelectQueries : Select(h, q)
    \/ \E q \in FewInsertQueries : InsertCall(h, q)
    \/ \E q \in FewUpdateQueries : UpdateCall(h, q)
    \/ \E q \in FewDeleteQueries : DeleteCall(h, q)

\* one call at a time in one run of the process, storage operations may fail
NextFail == CallFew("h1") \/ Step("h1") \/ Fail("h1")

SpecFail == Init /\ [][NextFail]_vars

\* the same calls on two tables, t (a integer, b string) and u (a integer)
IsoCreateTableQueries ==
    FewCreateTableQueries
    \cup {q \in CreateTableQueries : q.TableName = <<"u">> /\ q.Columns = <<ColA>>}

IsoInsertQueries ==
    FewInsertQueries
    \cup {q \in InsertQueries : /\ q.TableName = <<"u">>
                                /\ q.Columns = <<<<"a">>>>
                                /\ q.Values = <<<<Num(1)>>>>}

CallIso(h) ==
    \/ \E q \in IsoCreateTableQueries : CreateTableCall(h, q)
    \/ \E q \in FewSelectQueries : Select(h, q)
    \/ \E q \in IsoInsertQueries : InsertCall(h, q)
    \/ \E q \in FewUpdateQueries : UpdateCall(h, q)
    \/ \E q \in FewDeleteQueries : DeleteCall(h, q)

NextIso == CallIso("h1") \/ Step("h1") \/ Fail("h1")

SpecIso == Init /\ [][NextIso]_vars

(***************************************************************************)
(* Concurrent requests: net/http serves each request in a goroutine of its *)
(* own, and neither handler nor Database takes a lock, so the steps of two *)
(* calls interleave.  The engine is loaded from a directory that holds     *)
(* table t (a integer, b string) without rows or with two rows.            *)
(***************************************************************************)
TableT == newSchema(CHOOSE q \in CreateTableQueries :
                        q.TableName = <<"t">> /\ q.Columns = <<ColA, ColB>>)

InitialRows == {<<>>, <<<<Num(1), Str(<<"x">>)>>, <<Num(1), Str(<<"x">>)>>>>}

InitConc ==
    /\ tables = MapPut(EmptyMap, <<"t">>, TableT)
    /\ metaFile = JsonMeta(EncodeTables(tables))
    /\ \E rows \in InitialRows :
          /\ files = MapPut(EmptyMap, <<"t">>, JsonFile(EncodeRows(rows)))
          /\ data = loadData(files, tables)
    /\ pc = [h \in Handlers |-> "idle"]
    /\ query = [h \in Handlers |-> NoQuery]
    /\ loc = [h \in Handlers |-> NoLoc]
    /\ ret = [h \in Handlers |-> NoRet]
    /\ pre = [h \in Handlers |-> NoSnapshot]
    /\ Serving

ConcCreateTableQueries ==
    {q \in CreateTableQueries : q.TableName \in {<<"u">>, <<"U">>} /\ q.Columns = <<ColA>>}

\* a goroutine serves one request
CallConc(h) ==
    /\ query[h].kind = "none"
    /\ \/ \E q \in ConcCreateTableQueries : CreateTableCall(h, q)
       \/ \E q \in FewSelectQueries : Select(h, q)
       \/ \E q \in FewInsertQueries : InsertCall(h, q)
       \/ \E q \in FewUpdateQueries : UpdateCall(h, q)
       \/ \E q \in FewDeleteQueries : DeleteCall(h, q)

NextConc == \E h \in Handlers : CallConc(h) \/ Step(h)

SpecConc == InitConc /\ [][NextConc]_vars


(***************************************************************************)
(* The caller of Select keeps the result.  Select appends each matching    *)
(* row of db.data to a new slice: the slice is the caller's own, and each  *)
(* of its elements is the slice header of a row of db.data, with the same  *)
(* backing array.                                                          *)
(***************************************************************************)
\* the k-th smallest index of S
nthIndex(S, k) == CHOOSE i \in S : Cardinality({j \in S : j <= i}) = k

\* what the caller writes
CallerValues == {Str(<<"y">>)}

\* the caller assigns an element of the result, or a cell of a row of it
CallerWrite(h) ==
    /\ pc[h] = "idle"
    /\ query[h].kind = "select"
    /\ ret[h].err = NoErr
    /\ ret[h].at = "none"
    /\ LET t == ToLower(query[h].From)
           tableData == DataOf(data, t)
           matched == matchedIndices(tables[t], tableData, query[h].Where) IN
       \E k \in DOMAIN ret[h].rows : \E v \in CallerValues :
          \/ /\ ret' = [ret EXCEPT ![h].rows[k] = <<v>>, ![h].at = "caller"]
             /\ UNCHANGED data
          \/ \E p \in DOMAIN ret[h].rows[k] :
                /\ ret' = [ret EXCEPT ![h].rows[k][p] = v, ![h].at = "caller"]
                /\ data' = MapPut(data, t,
                                  [tableData EXCEPT ![nthIndex(matched, k)][p] = v])
    /\ UNCHANGED <<tables, metaFile, files, pc, query, loc, pre, lockFile, proc>>

\* one call at a time, the caller of Select writing to what it got
NextAlias == CallFew("h1") \/ Step("h1") \/ CallerWrite("h1")

SpecAlias == Init /\ [][NextAlias]_vars

(***************************************************************************)
(* main: the lock file and the life of a process.  A process is off (not   *)
(* started), locked (it created the lock file), loaded (NewDatabase        *)
(* returned the engine and the signal goroutine runs), serving (the        *)
(* listener accepts requests), removed (the signal goroutine removed the   *)
(* lock file and has not called os.Exit yet) or exited.  log.Fatalf and    *)
(* log.Fatal call os.Exit, which runs no deferred function.                *)
(***************************************************************************)
\* os.OpenFile with O_CREATE|O_EXCL: fails when the file exists, and then
\* log.Fatalf ends the process
CreateLockFile(p) ==
    /\ proc[p] = "off"
    /\ IF lockFile = "none"
       THEN lockFile' = p /\ proc' = [proc EXCEPT ![p] = "locked"]
       ELSE proc' = [proc EXCEPT ![p] = "exited"] /\ UNCHANGED lockFile
    /\ UNCHANGED <<tables, data, metaFile, files, pc, query, loc, ret, pre>>

\* NewDatabase returns the engine; that of p1 is tables and data
NewDatabaseOk(p) ==
    /\ proc[p] = "locked"
    /\ Loadable(metaFile, files)
    /\ proc' = [proc EXCEPT ![p] = "loaded"]
    /\ IF p = "p1"
       THEN tables' = loadSchema(metaFile) /\ data' = loadData(files, loadSchema(metaFile))
       ELSE UNCHANGED <<tables, data>>
    /\ UNCHANGED <<metaFile, files, pc, query, loc, ret, pre, lockFile>>

\* NewDatabase returns an error: log.Fatalf
NewDatabaseErr(p) ==
    /\ proc[p] = "locked"
    /\ proc' = [proc EXCEPT ![p] = "exited"]
    /\ UNCHANGED <<tables, data, metaFile, files, pc, query, loc, ret, pre, lockFile>>

\* http.ListenAndServe accepts requests
Listen(p) ==
    /\ proc[p] = "loaded"
    /\ proc' = [proc EXCEPT ![p] = "serving"]
    /\ UNCHANGED <<tables, data, metaFile, files, pc, query, loc, ret, pre, lockFile>>

\* http.ListenAndServe returns an error: log.Fatal
ListenErr(p) ==
    /\ proc[p] \in {"loaded", "serving"}
    /\ proc' = [proc EXCEPT ![p] = "exited"]
    /\ UNCHANGED <<tables, data, metaFile, files, pc, query, loc, ret, pre, lockFile>>

\* an interrupt: the signal goroutine calls removeLockFile ...
Interrupt(p) ==
    /\ proc[p] \in {"loaded", "serving"}
    /\ lockFile # "none"
    /\ lockFile' = "none"
    /\ proc' = [proc EXCEPT ![p] = "removed"]
    /\ UNCHANGED <<tables, data, metaFile, files, pc, query, loc, ret, pre>>

\* ... and then os.Exit(0)
Exit(p) ==
    /\ proc[p] = "removed"
    /\ proc' = [proc EXCEPT ![p] = "exited"]
    /\ UNCHANGED <<tables, data, metaFile, files, pc, query, loc, ret, pre, lockFile>>

\* the goroutines of the requests run until os.Exit
Requests(p) == proc[p] \in {"serving", "removed"}

Main(p) ==
    \/ CreateLockFile(p) \/ NewDatabaseOk(p) \/ NewDatabaseErr(p)
    \/ Listen(p) \/ ListenErr(p) \/ Interrupt(p) \/ Exit(p)

\* the directory holds an empty catalog and no process runs
InitLock ==
    /\ tables = EmptyMap
    /\ data = EmptyMap
    /\ metaFile = JsonMeta(EncodeTables(EmptyMap))
    /\ files = EmptyMap
    /\ pc = [h \in Handlers |-> "idle"]
    /\ query = [h \in Handlers |-> NoQuery]
    /\ loc = [h \in Handlers |-> NoLoc]
    /\ ret = [h \in Handlers |-> NoRet]
    /\ pre = [h \in Handlers |-> NoSnapshot]
    /\ lockFile = "none"
    /\ proc = [p \in Processes |-> "off"]

NextLock ==
    \/ \E p \in Processes : Main(p)
    \/ Requests("p1") /\ (CallFew("h1") \/ Step("h1"))

SpecLock == InitLock /\ [][NextLock]_vars

(***************************************************************************)
(* Properties.                                                             *)
(***************************************************************************)
Mutations == {"insert", "update", "delete"}

AllReturned == \A h \in Handlers : pc[h] = "idle"

\* the table a mutation of handler h is on
TableOf(h) == ToLower(query[h].TableName)

\* the row sequence a row file holds; a missing file holds the empty one
FileRows(fs, tableName) ==
    IF FileOf(fs, tableName).st = "json" THEN DecodeRows(FileOf(fs, tableName).doc) ELSE <<>>

\* a row file that is missing or holds a complete text
FileComplete(fs, tableName) == FileOf(fs, tableName).st \in {"absent", "json"}

AllTables == (DOMAIN tables) \cup (DOMAIN data) \cup (DOMAIN files)

\* the locals a mutation q computes when it starts on the engine of snap
LocalsOn(snap, q) ==
    LET tableName == ToLower(q.TableName)
        schema == snap.tables[tableName]
        tableData == DataOf(snap.data, tableName) IN
    CASE q.kind = "insert" -> insertLocals(schema, q)
      [] q.kind = "update" -> updateLocals(schema, tableData, q)
      [] OTHER -> deleteLocals(schema, tableData, q)

\* the rows Select returns for where on tableData
SelectRows(schema, tableData, where) ==
    rowsAt(tableData, matchedIndices(schema, tableData, where), 1)

\* C1: with one call at a time and no storage failure, whenever every call
\* has returned (and after a load), the rows of every table in memory are
\* the rows its row file holds, a missing file holding none.
C1_MirrorConsistency ==
    AllReturned =>
        \A t \in AllTables :
            FileComplete(files, t) /\ DataOf(data, t) = FileRows(files, t)

\* an Update that changed a row has returned
C1_Witness ==
    /\ pc["h1"] = "idle"
    /\ query["h1"].kind = "update"
    /\ ret["h1"].err = NoErr
    /\ ret["h1"].n >= 1
    /\ DataOf(data, <<"t">>) # DataOf(pre["h1"].data, <<"t">>)

\* C2: during and after the updateFile of an Insert, Update or Delete, runs
\* with failing storage operations included, the row file holds its complete
\* prior rows or its complete new rows, and after a failed write the rows in
\* memory are those on disk.
C2_RowFileAtomicity ==
    \A h \in Handlers :
        (/\ query[h].kind \in Mutations
         /\ \/ pc[h] # "idle"
            \/ ret[h].at \in {"none", "read", "decode", "create", "encode"}
         /\ FileComplete(pre[h].files, TableOf(h)))
        => LET t == TableOf(h)
               prior == FileRows(pre[h].files, t)
               new == callback(query[h].kind,
                               [LocalsOn(pre[h], query[h]) EXCEPT !.rows = prior]) IN
           /\ FileComplete(files, t)
           /\ FileRows(files, t) \in {prior, new}
           /\ (pc[h] = "idle" /\ ret[h].err # NoErr)
                 => DataOf(data, t) = FileRows(files, t)

\* C3: an Insert, Update or Delete whose updateFile returned an error (at
\* read, decode, create or encode) returns an error and leaves the rows of
\* its table in memory as they were before the call.
C3_FailedWriteKeepsMemory ==
    \A h \in Handlers :
        (/\ pc[h] = "idle"
         /\ query[h].kind \in Mutations
         /\ ret[h].at \in {"read", "decode", "create", "encode"})
        => /\ ret[h].err = "StorageIO"
           /\ data = pre[h].data

\* an Update of a row failed at the encoder's write
C3_Witness ==
    /\ pc["h1"] = "idle"
    /\ query["h1"].kind = "update"
    /\ ret["h1"].at = "encode"
    /\ Len(DataOf(data, <<"t">>)) >= 1
    /\ matchedIndices(tables[<<"t">>], DataOf(data, <<"t">>), query["h1"].Where) # {}

\* C4: once two concurrent mutations of one table have both returned
\* successfully, the row file and the rows in memory are equal.
C4_NoLostUpdate ==
    \A h, g \in Handlers :
        (/\ h # g
         /\ pc[h] = "idle" /\ pc[g] = "idle"
         /\ query[h].kind \in Mutations /\ query[g].kind \in Mutations
         /\ ret[h].err = NoErr /\ ret[g].err = NoErr
         /\ TableOf(h) = TableOf(g))
        => /\ FileComplete(files, TableOf(h))
           /\ DataOf(data, TableOf(h)) = FileRows(files, TableOf(h))

\* the rows of tableName before and after the Update of handler g that is
\* putting its rows in memory
BeforeUpdate(g, tableName) ==
    [i \in DOMAIN DataOf(data, tableName) |->
        IF i \in loc[g].applied THEN DataOf(pre[g].data, tableName)[i]
        ELSE DataOf(data, tableName)[i]]

AfterUpdate(g, tableName) ==
    [i \in DOMAIN DataOf(data, tableName) |->
        IF i \in DOMAIN loc[g].updateRows THEN loc[g].updateRows[i]
        ELSE DataOf(data, tableName)[i]]

\* C5: a Select that runs while an Update of the same table is putting its
\* rows in memory returns the rows selected from the table as it was before
\* the Update or as it is after it.
C5_NoTornRead ==
    [][\A h, g \in Handlers :
          (/\ h # g
           /\ query[h].kind = "none"
           /\ query'[h].kind = "select"
           /\ ret'[h].err = NoErr
           /\ pc[g] = "mem_update"
           /\ ToLower(query'[h].From) = loc[g].tableName)
          => LET t == loc[g].tableName IN
             ret'[h].rows \in
                 {SelectRows(tables[t], BeforeUpdate(g, t), query'[h].Where),
                  SelectRows(tables[t], AfterUpdate(g, t), query'[h].Where)}]_vars

\* C6: of two concurrent CreateTable calls with the same lower-cased name,
\* one succeeds and the other fails with TableExists, and the catalog file
\* afterwards holds the catalog in memory.
C6_CreateTableSerialized ==
    \A h, g \in Handlers :
        (/\ h # g
         /\ pc[h] = "idle" /\ pc[g] = "idle"
         /\ query[h].kind = "create_table" /\ query[g].kind = "create_table"
         /\ TableOf(h) = TableOf(g))
        => /\ {ret[h].err, ret[g].err} = {NoErr, "TableExists"}
           /\ metaFile = JsonMeta(EncodeTables(tables))

\* C7: with one call at a time and no storage failure, whenever every call
\* has returned, NewDatabase on the directory loads without error the
\* catalog in memory and, for every table, the rows in memory; a table
\* without a row file loads as the empty sequence.
C7_RoundTrip ==
    AllReturned =>
        /\ Loadable(metaFile, files)
        /\ loadSchema(metaFile) = tables
        /\ \A t \in DOMAIN tables :
              loadData(files, loadSchema(metaFile))[t] = DataOf(data, t)

\* the engine was loaded again: a table with rows and a table without a row file
C7_Witness ==
    /\ query["h1"].kind = "new_database"
    /\ \E t \in DOMAIN tables : Len(DataOf(data, t)) >= 1
    /\ \E t \in DOMAIN tables : FileOf(files, t).st = "absent" /\ data[t] = <<>>

\* whether every value of row that is at the position of a column of schema
\* has the type of that column
RowTyped(schema, row) ==
    \A c \in DOMAIN schema.Columns :
        LET p == schema.Columns[c].Position IN
        p + 1 <= Len(row) => valueType(row[p + 1]) = ReflectType(schema.Columns[c])

\* C8: in every state, every row of every table, in memory and in its row
\* file, has at the position of each column a value of the type of that column.
C8_RowTyping ==
    \A t \in DOMAIN tables :
        /\ \A i \in DOMAIN DataOf(data, t) : RowTyped(tables[t], DataOf(data, t)[i])
        /\ \A i \in DOMAIN FileRows(files, t) : RowTyped(tables[t], FileRows(files, t)[i])

\* C9: in every state, every row of every table, in memory and in its row
\* file, has as many values as the table has columns.
C9_RowWidth ==
    \A t \in DOMAIN tables :
        /\ \A i \in DOMAIN DataOf(data, t) :
              Len(DataOf(data, t)[i]) = Cardinality(DOMAIN tables[t].Columns)
        /\ \A i \in DOMAIN FileRows(files, t) :
              Len(FileRows(files, t)[i]) = Cardinality(DOMAIN tables[t].Columns)

\* C10: a CreateTable whose storeSchema failed returns an error and leaves
\* the catalog in memory as it was before the call.
C10_FailedCreateInvisible ==
    \A h \in Handlers :
        (/\ pc[h] = "idle"
         /\ query[h].kind = "create_table"
         /\ ret[h].at \in {"create", "encode"})
        => /\ ret[h].err = "StorageIO"
           /\ tables = pre[h].tables

\* whether the engine and its files are as they were when the call of h began
Untouched(h) ==
    /\ tables = pre[h].tables
    /\ data = pre[h].data
    /\ metaFile = pre[h].metaFile
    /\ files = pre[h].files

\* C11: a CreateTable whose name, lower-cased, is the name of a table of the
\* catalog fails with TableExists, whatever the casing of the name and
\* whatever the column list, and leaves the catalog in memory, the catalog
\* file and all rows in memory and in the row files unchanged.
C11_TableExists ==
    \A h \in Handlers :
        (/\ pc[h] = "idle"
         /\ query[h].kind = "create_table"
         /\ ToLower(query[h].TableName) \in DOMAIN pre[h].tables)
        => /\ ret[h].err = "TableExists"
           /\ Untouched(h)

\* CreateTable U was rejected, table u holding a row
C11_Witness ==
    /\ pc["h1"] = "idle"
    /\ query["h1"].kind = "create_table"
    /\ query["h1"].TableName = <<"U">>
    /\ <<"u">> \in DOMAIN pre["h1"].tables
    /\ Len(DataOf(data, <<"u">>)) >= 1
    /\ ret["h1"].err = "TableExists"

\* a schema as the catalog is to hold it
ValidSchema(schema) ==
    /\ DOMAIN schema.Columns # {}
    /\ \A c \in DOMAIN schema.Columns :
          /\ schema.Columns[c].Name = c
          /\ Len(c) > 0
          /\ ToLower(c) = c
          /\ entityNameRegExpMatch(c)
          /\ schema.Columns[c].Type \in columnTypes
    /\ \A c, d \in DOMAIN schema.Columns : ToLower(c) = ToLower(d) => c = d

\* a column list that CreateTable is to accept
ValidColumnList(columns) ==
    /\ Len(columns) > 0
    /\ \A i \in DOMAIN columns :
          /\ entityNameRegExpMatch(ToLower(columns[i].Name))
          /\ ToLowerWord(columns[i].Type) \in columnTypes
    /\ \A i, k \in DOMAIN columns :
          ToLower(columns[i].Name) = ToLower(columns[k].Name) => i = k

ColumnListErrors == {"InvalidName", "DuplicateColumn", "UnknownType", "EmptyColumnList"}

\* C12: every schema of the catalog has a non-empty column set, every column
\* name non-empty, lower-case and matching ^[a-zA-Z0-9_]+$, no two columns
\* with one case-folded name, and every type integer or string; a CreateTable
\* of a new table whose column list breaks one of these fails with
\* InvalidName, DuplicateColumn, UnknownType or EmptyColumnList and creates
\* no table.
C12_SchemaValidity ==
    /\ \A t \in DOMAIN tables : ValidSchema(tables[t])
    /\ \A h \in Handlers :
          (/\ pc[h] = "idle"
           /\ query[h].kind = "create_table"
           /\ isValidTableNameFormat(ToLower(query[h].TableName))
           /\ ToLower(query[h].TableName) \notin DOMAIN pre[h].tables
           /\ ~ValidColumnList(query[h].Columns))
          => /\ ret[h].err \in ColumnListErrors
             /\ tables = pre[h].tables

\* C13: in every schema of the catalog the positions of the columns are
\* pairwise distinct and are the integers 0..len(columns)-1, and the schema a
\* CreateTable has added gives each column its zero-based index in the
\* column list of the query.
C13_Positions ==
    /\ \A t \in DOMAIN tables :
          LET cols == tables[t].Columns IN
          /\ {cols[c].Position : c \in DOMAIN cols} = 0..(Cardinality(DOMAIN cols) - 1)
          /\ \A c, d \in DOMAIN cols : cols[c].Position = cols[d].Position => c = d
    /\ \A h \in Handlers :
          (pc[h] = "idle" /\ query[h].kind = "create_table" /\ ret[h].err = NoErr)
          => LET q == query[h] IN
             \A i \in DOMAIN q.Columns :
                 tables[ToLower(q.TableName)].Columns[ToLower(q.Columns[i].Name)].Position
                     = i - 1

\* CreateTable T (a integer, b String) has returned: a at 0, b at 1
C13_Witness ==
    /\ pc["h1"] = "idle"
    /\ query["h1"].kind = "create_table"
    /\ query["h1"].TableName = <<"T">>
    /\ ret["h1"].err = NoErr
    /\ tables[<<"t">>].Columns[<<"b">>].Position = 1

\* whether the column list of an Insert is a permutation of the columns of schema
IsPermutation(columns, schema) ==
    /\ Len(columns) = Cardinality(DOMAIN schema.Columns)
    /\ {ToLower(columns[i]) : i \in DOMAIN columns} = DOMAIN schema.Columns

\* C14: after a successful Insert whose column list is a permutation of the
\* columns of the table, each row it stored, in memory and in the row file,
\* holds at the position of every column the value the query supplied for
\* that column in the corresponding row.
C14_Projection ==
    \A h \in Handlers :
        (/\ pc[h] = "idle"
         /\ query[h].kind = "insert"
         /\ ret[h].err = NoErr
         /\ IsPermutation(query[h].Columns, tables[TableOf(h)]))
        => LET q == query[h]
               t == TableOf(h)
               old == Len(DataOf(pre[h].data, t)) IN
           \A r \in DOMAIN q.Values : \A i \in DOMAIN q.Columns :
               LET p == tables[t].Columns[ToLower(q.Columns[i])].Position IN
               /\ DataOf(data, t)[old + r][p + 1] = q.Values[r][i]
               /\ FileRows(files, t)[old + r][p + 1] = q.Values[r][i]

\* Insert into T columns [B, a] values [["x", 1]] has stored (1, "x")
C14_Witness ==
    /\ pc["h1"] = "idle"
    /\ query["h1"].kind = "insert"
    /\ query["h1"].Columns = <<<<"B">>, <<"a">>>>
    /\ ret["h1"].err = NoErr
    /\ DataOf(data, <<"t">>)[Len(DataOf(data, <<"t">>))] = <<Num(1), Str(<<"x">>)>>

\* C15: a successful Insert of n rows returns n, and afterwards the rows of
\* the table, in memory and in the row file, are the rows before the call
\* followed by the n re-projected rows in the order of the query.
C15_InsertAppends ==
    \A h \in Handlers :
        (pc[h] = "idle" /\ query[h].kind = "insert" /\ ret[h].err = NoErr)
        => LET q == query[h]
               t == TableOf(h)
               new == sortValues(pre[h].tables[t], insertColumnsOf(q.Columns), q.Values) IN
           /\ ret[h].n = Len(q.Values)
           /\ DataOf(data, t) = DataOf(pre[h].data, t) \o new
           /\ FileComplete(files, t)
           /\ FileRows(files, t) = FileRows(pre[h].files, t) \o new

\* an Insert into a table that held a row has returned
C15_Witness ==
    /\ pc["h1"] = "idle"
    /\ query["h1"].kind = "insert"
    /\ ret["h1"].err = NoErr
    /\ ret["h1"].n = 1
    /\ Len(DataOf(pre["h1"].data, <<"t">>)) = 1
    /\ Len(DataOf(data, <<"t">>)) = 2

ValidationErrors ==
    {"InvalidName", "TableExists", "EmptyColumnList", "DuplicateColumn", "UnknownType",
     "UnknownTable", "UnknownColumn", "TypeMismatch", "UnsupportedOperation",
     "EmptyValues", "MissingColumn", "RowArityMismatch"}

\* C16: whenever CreateTable, Insert, Select, Update or Delete has returned
\* a validation error, the catalog, the rows of every table in memory, the
\* catalog file and every row file are as they were before the call.
C16_ValidationBeforeMutation ==
    \A h \in Handlers :
        (pc[h] = "idle" /\ ret[h].err \in ValidationErrors) => Untouched(h)

\* an Update of a table with rows was rejected for the type of its SET value
C16_Witness ==
    /\ pc["h1"] = "idle"
    /\ query["h1"].kind = "update"
    /\ ret["h1"].err = "TypeMismatch"
    /\ query["h1"].Where = WhereAll
    /\ Len(DataOf(data, <<"t">>)) >= 1

\* the value of an operand on a row: the literal of a value, the value at
\* the position of the column an identifier names; type and column name are
\* taken as validateOperand takes them, lower-cased
operandValue(schema, row, operand) ==
    IF ToLowerWord(operand.Type) = "value" THEN operand.Value
    ELSE row[schema.Columns[ToLower(operand.Value.s)].Position + 1]

\* whether every expression of the WHERE list holds on the row
WhereHolds(schema, row, exprs) ==
    \A i \in DOMAIN exprs :
        operandValue(schema, row, exprs[i].Left) = operandValue(schema, row, exprs[i].Right)

\* C17: a successful Select returns the rows of the table in memory on which
\* every WHERE expression holds, in their stored order, and with an empty
\* WHERE list all rows.
C17_SelectFilter ==
    \A h \in Handlers :
        (pc[h] = "idle" /\ query[h].kind = "select" /\ ret[h].err = NoErr)
        => LET t == ToLower(query[h].From)
               tableData == DataOf(data, t) IN
           ret[h].rows =
               rowsAt(tableData,
                      {i \in DOMAIN tableData :
                          WhereHolds(tables[t], tableData[i], query[h].Where)}, 1)

\* C18: the result of Select shares no storage with the engine: whatever the
\* caller writes to the sequence it got or to a cell of a row of it, the
\* rows the engine holds in memory stay as they were when Select was called.
C18_SelectIsolation ==
    \A h \in Handlers :
        (pc[h] = "idle" /\ query[h].kind = "select") => data = pre[h].data

\* the table a Select, Update or Delete is on
WhereTable(q) == IF q.kind = "select" THEN ToLower(q.From) ELSE ToLower(q.TableName)

\* whether both operands of the expression resolve and their types differ
TypesDiffer(schema, expr) ==
    LET l == validateOperand(schema, expr.Left)
        r == validateOperand(schema, expr.Right) IN
    l.err = NoErr /\ r.err = NoErr /\ l.type # r.type

\* a Select, Update or Delete of handler h on a table of the catalog has
\* returned, its WHERE list holding an expression whose operand types differ
ReturnedWithMismatch(h) ==
    /\ pc[h] = "idle"
    /\ query[h].kind \in {"select", "update", "delete"}
    /\ WhereTable(query[h]) \in DOMAIN pre[h].tables
    /\ \E i \in DOMAIN query[h].Where :
          TypesDiffer(pre[h].tables[WhereTable(query[h])], query[h].Where[i])

\* whether the first expression of the list that is not valid is one whose
\* operand types differ
FirstInvalidDiffers(schema, where) ==
    \E i \in DOMAIN where :
        /\ TypesDiffer(schema, where[i])
        /\ \A k \in 1..(i - 1) : validateWhereOne(schema, where[k]) = NoErr

\* C19 as stated: a Select, Update or Delete whose WHERE list holds an
\* expression with operands of different types fails with TypeMismatch
\* before any row is scanned, and changes nothing in memory or in the files.
C19_TypeMismatchAsStated ==
    \A h \in Handlers :
        ReturnedWithMismatch(h)
        => /\ ret[h].err = "TypeMismatch"
           /\ ret[h].at = "validate"
           /\ Untouched(h)

\* C19: a Select, Update or Delete whose WHERE list holds an expression with
\* operands of different types fails in validation, before any row is
\* scanned, and changes nothing in memory or in the files; the error is
\* TypeMismatch when no expression before that one is invalid.
C19_TypeMismatch ==
    \A h \in Handlers :
        ReturnedWithMismatch(h)
        => /\ ret[h].err # NoErr
           /\ ret[h].at = "validate"
           /\ Untouched(h)
           /\ FirstInvalidDiffers(pre[h].tables[WhereTable(query[h])], query[h].Where)
                 => ret[h].err = "TypeMismatch"

\* a Delete on a table with rows was rejected: integer column a against "x"
C19_Witness ==
    /\ pc["h1"] = "idle"
    /\ query["h1"].kind = "delete"
    /\ query["h1"].Where = WhereMismatch
    /\ ret["h1"].err = "TypeMismatch"
    /\ Len(DataOf(data, <<"t">>)) >= 1

\* whether new is old with the SET list applied: the values of SET at the
\* positions of the columns it names, every other position as in old
SetApplied(schema, set, old, new) ==
    LET pos(k) == schema.Columns[ToLower(set[k].Column)].Position + 1 IN
    /\ Len(new) = Len(old)
    /\ \A k \in DOMAIN set : new[pos(k)] = set[k].Value
    /\ \A p \in DOMAIN old : (\A k \in DOMAIN set : pos(k) # p) => new[p] = old[p]

\* whether the rows new are the rows old after the Update q
UpdateApplied(schema, q, matched, old, new) ==
    /\ Len(new) = Len(old)
    /\ \A i \in DOMAIN old :
          IF i \in matched THEN SetApplied(schema, q.Set, old[i], new[i])
          ELSE new[i] = old[i]

\* C20: after a successful Update the table has as many rows as before, in
\* the same order; a row that did not match WHERE before the call is
\* unchanged, and a row that matched differs from what it was only at the
\* positions of the columns named in SET, where it holds the SET values.
C20_UpdateFrame ==
    \A h \in Handlers :
        (pc[h] = "idle" /\ query[h].kind = "update" /\ ret[h].err = NoErr)
        => LET t == TableOf(h)
               old == DataOf(pre[h].data, t)
               matched == matchedIndices(tables[t], old, query[h].Where) IN
           /\ UpdateApplied(tables[t], query[h], matched, old, DataOf(data, t))
           /\ UpdateApplied(tables[t], query[h], matched, old, FileRows(files, t))

\* the indices of the rows that matched WHERE when the call of h began
MatchedBefore(h) ==
    matchedIndices(pre[h].tables[TableOf(h)], DataOf(pre[h].data, TableOf(h)),
                   query[h].Where)

SetFaults(schema, set) ==
    (IF \E i, k \in DOMAIN set : i # k /\ ToLower(set[i].Column) = ToLower(set[k].Column)
     THEN {"DuplicateColumn"} ELSE {})
    \cup (IF \E i \in DOMAIN set : ToLower(set[i].Column) \notin DOMAIN schema.Columns
          THEN {"UnknownColumn"} ELSE {})
    \cup (IF \E i \in DOMAIN set :
                /\ ToLower(set[i].Column) \in DOMAIN schema.Columns
                /\ ReflectType(schema.Columns[ToLower(set[i].Column)]) # valueType(set[i].Value)
          THEN {"TypeMismatch"} ELSE {})

Renumbered(gone, old, new) ==
    /\ Len(new) = Len(old) - Cardinality(gone)
    /\ \A i \in (DOMAIN old) \ gone :
          new[i - Cardinality({j \in gone : j < i})] = old[i]

NameOf(q) == IF q.kind = "select" THEN q.From ELSE q.TableName

\* C24: Insert, Select, Update and Delete look the table up under its
\* lower-cased name and fail with UnknownTable exactly when the catalog has
\* no table of that name, and then nothing changes.
C24_TableNameResolution ==
    \A h \in Handlers :
        (pc[h] = "idle" /\ query[h].kind \in {"insert", "select", "update", "delete"})
        => /\ ret[h].err = "UnknownTable" <=> ToLower(NameOf(query[h])) \notin DOMAIN pre[h].tables
           /\ ret[h].err = "UnknownTable" => Untouched(h)

\* an Insert into T has stored a row in table t
C24_Witness ==
    /\ pc["h1"] = "idle"
    /\ query["h1"].kind = "insert"
    /\ query["h1"].TableName = <<"T">>
    /\ ret["h1"].err = NoErr
    /\ Len(DataOf(data, <<"t">>)) = Len(DataOf(pre["h1"].data, <<"t">>)) + 1

\* the processes that have created the lock file and have not exited
Running == {p \in Processes : proc[p] \in {"locked", "loaded", "serving", "removed"}}

\* C25: at every moment at most one process has created the lock file of
\* the directory and can still execute operations of the engine.
C25_LockExclusion == Cardinality(Running) <= 1

\* C26: whenever a process that created the lock file has terminated, the
\* lock file it created has been removed.
C26_LockReleased ==
    \A p \in Processes : proc[p] = "exited" => lockFile # p

\* C27: an Insert, Update, Delete or CreateTable in which the close of the
\* row file or of the catalog file failed after the content was written
\* does not return success.
C27_CloseFailureSurfaced ==
    \A h \in Handlers :
        (pc[h] = "idle" /\ ret[h].at = "close")
        => /\ query[h].kind \in Mutations \cup {"create_table"}
           /\ ret[h].err # NoErr

\* the close failed in an Insert whose row is in the row file
C27_Witness ==
    /\ pc["h1"] = "idle"
    /\ query["h1"].kind = "insert"
    /\ ret["h1"].at = "close"
    /\ Len(FileRows(files, <<"t">>)) = Len(FileRows(pre["h1"].files, <<"t">>)) + 1

\* C28: for every WHERE list of a Select, Update or Delete on a table of the
\* catalog that validateWhereExpr accepts and every row of the table,
\* extractVal yields for each operand, without a fault, what
\* validation took the operand for: the literal of a value operand, and the
\* value at the position of the column an identifier names, in any casing
\* of the operand type and of the column name.
C28_WhereAgreement ==
    \A h \in Handlers :
        (/\ query[h].kind \in {"select", "update", "delete"}
         /\ WhereTable(query[h]) \in DOMAIN pre[h].tables
         /\ validateWhereExpr(pre[h].tables[WhereTable(query[h])], query[h].Where) = NoErr)
        => LET schema == pre[h].tables[WhereTable(query[h])]
               rows == DataOf(pre[h].data, WhereTable(query[h])) IN
           \A i \in DOMAIN rows : \A k \in DOMAIN query[h].Where :
              \A operand \in {query[h].Where[k].Left, query[h].Where[k].Right} :
                 extractVal(schema, rows[i], operand)
                     = [panic |-> FALSE, val |-> operandValue(schema, rows[i], operand)]

\* C29: for every SET list of an Update on a table of the catalog that
\* validateExpr accepts and every row of the table, updateValues returns
\* the row with the SET values at the positions of the columns SET names,
\* the names compared as validation compares them,
\* and with every other position unchanged.
C29_SetTargets ==
    \A h \in Handlers :
        (/\ query[h].kind = "update"
         /\ TableOf(h) \in DOMAIN pre[h].tables
         /\ validateExpr(pre[h].tables[TableOf(h)], query[h].Set) = NoErr)
        => LET schema == pre[h].tables[TableOf(h)]
               rows == DataOf(pre[h].data, TableOf(h)) IN
           \A i \in DOMAIN rows :
               SetApplied(schema, query[h].Set, rows[i],
                          updateValues(schema, query[h].Set, rows[i]))

\* every table but the one handler h's call names is as it was when the call
\* began, in memory and in its row file
OthersUntouched(h) ==
    \A t2 \in (AllTables \cup DOMAIN pre[h].data \cup DOMAIN pre[h].files) \ {TableOf(h)} :
        /\ DataOf(data, t2) = DataOf(pre[h].data, t2)
        /\ FileOf(files, t2) = FileOf(pre[h].files, t2)

\* C30: at every step and at every outcome of an Insert, Update or Delete
\* on table T, succeeded or failed, the catalog (db.tables and the catalog
\* file) and the in-memory rows and the row file of every other table are
\* as they were when the call began; after a CreateTable that returned nil,
\* the rows in memory, the row files and the schema of every table that
\* existed when the call began are as they were.
C30_TableIsolation ==
    \A h \in Handlers :
        /\ query[h].kind \in Mutations
           => /\ tables = pre[h].tables
              /\ metaFile = pre[h].metaFile
              /\ OthersUntouched(h)
        /\ (query[h].kind = "create_table" /\ pc[h] = "idle" /\ ret[h].err = NoErr)
           => /\ data = pre[h].data
              /\ files = pre[h].files
              /\ \A t2 \in DOMAIN pre[h].tables :
                    t2 \in DOMAIN tables /\ tables[t2] = pre[h].tables[t2]

\* an Insert into u has rewritten the row file of u while t held a row in
\* memory and in its row file
C30_Witness ==
    /\ pc["h1"] = "idle"
    /\ query["h1"].kind = "insert"
    /\ TableOf("h1") = <<"u">>
    /\ FileOf(files, <<"u">>) # FileOf(pre["h1"].files, <<"u">>)
    /\ Len(DataOf(data, <<"t">>)) >= 1
    /\ Len(FileOf(files, <<"t">>).doc) >= 1

=============================================================================
